---- MODULE Spec2Model ----
(***************************************************************************)
(* Cleaning-robot simulation of randomAgents/random_agents: the            *)
(* CleaningModel driver (model.py) and the CleanerAgent controller         *)
(* (agent.py), as a state machine.  One state is the world between two     *)
(* calls of CleaningModel.step(); the initial states are the outcomes of   *)
(* CleaningModel.__init__ for the configurations of a specification.       *)
(***************************************************************************)
EXTENDS Integers, Sequences, FiniteSets, TLC

VARIABLES
    params,                 \* the constructor's arguments (model.py:22-29)
    constructed,            \* "ok", or "ValueError" when __init__ raised
    obstacles,              \* cells holding an ObstacleAgent
    stations,               \* cells of the ChargingStationAgents, in creation order
    is_dirty,               \* DirtyCellAgent.is_dirty, by the cell of the DirtyCellAgent
    cleaners,               \* the CleanerAgents, in creation order
    dirty_cells,            \* CleaningModel.dirty_cells
    initial_dirty_cells,    \* CleaningModel.initial_dirty_cells
    current_step,           \* CleaningModel.current_step
    cleaning_completed_at,  \* CleaningModel.cleaning_completed_at
    running,                \* CleaningModel.running
    final_metrics_calls,    \* how many times _print_final_metrics has run
    statistics,             \* what the driver's latest get_statistics() call
                            \* returned, as <<result>>; <<>> before the first
    twin                    \* <<world>> of a second model constructed with the
                            \* same arguments and seed and stepped alongside;
                            \* <<>> when there is none

vars == <<params, constructed, obstacles, stations, is_dirty, cleaners,
          dirty_cells, initial_dirty_cells, current_step,
          cleaning_completed_at, running, final_metrics_calls, statistics,
          twin>>

(***************************************************************************)
(* Bounds of the model.                                                    *)
(***************************************************************************)
\* max_time runs from 1 to MaxTime in the small configurations of Spec
MaxTime == 2
\* step() is called at most ExtraSteps times after tick max_time
ExtraSteps == 1
\* widths of the small grids of Spec run from 3 to MaxWidth (height 3 or 4)
MaxWidth == 4
\* largest max_time of the corridor runs of Spec
LongTime == 104
\* interior length of the corridor of the corridor runs
CorridorLen == 84
\* max_time of the runs of SpecWalk on the corridor with an obstacle
WalkTime == 9
\* the ticks of the runs in which one cleaner paces its battery down
PaceTime == 82
\* the corridor two cleaners walk to its end and back, and the ticks they
\* are given: back near the stations as the battery gets low
ReturnLen == 43
ReturnTime == 85

(***************************************************************************)
(* Program constants.                                                      *)
(***************************************************************************)
FullBattery == 100
LowBattery == 20
ChargeIncrement == 5
\* Python's None, for cleaning_completed_at (ticks are >= 1)
None == -1

(***************************************************************************)
(* Grid: OrthogonalMooreGrid([width, height], torus=False).                *)
(***************************************************************************)
GridCells(p) == (0 .. p.width - 1) \X (0 .. p.height - 1)

\* model.py:46-49
border(p) ==
    {c \in GridCells(p) : c[2] \in {0, p.height - 1} \/ c[1] \in {0, p.width - 1}}

\* model.py:41-43, the cells "except borders"
InteriorCells(p) ==
    {c \in GridCells(p) : c[1] \notin {0, p.width - 1} /\ c[2] \notin {0, p.height - 1}}

\* the Moore offsets in the order the grid connects a cell to its neighbours
MooreOffsets ==
    << <<-1, -1>>, <<-1, 0>>, <<-1, 1>>, <<0, -1>>,
       <<0, 1>>, <<1, -1>>, <<1, 0>>, <<1, 1>> >>

RECURSIVE neighborhood_from(_, _, _)
neighborhood_from(p, c, i) ==
    IF i > Len(MooreOffsets) THEN <<>>
    ELSE LET n == <<c[1] + MooreOffsets[i][1], c[2] + MooreOffsets[i][2]>>
         IN  IF n \in GridCells(p)
             THEN <<n>> \o neighborhood_from(p, c, i + 1)
             ELSE neighborhood_from(p, c, i + 1)

\* cell.neighborhood.cells: the 8-neighbours inside the grid, no wraparound
neighborhood(p, c) == neighborhood_from(p, c, 1)

Range(s) == {s[i] : i \in DOMAIN s}

(***************************************************************************)
(* random.sample.  The seed parameter of a configuration stands for a set  *)
(* of seeds: "any" for all of them, so a sample may be any sample;         *)
(* "corridor" for the seeds that put the stations on the first cells of    *)
(* row 1 and the dirt on the last cells of that row.                       *)
(***************************************************************************)
\* the k-element subsets of S (the cells a sample picks, order irrelevant)
RECURSIVE SampleSets(_, _)
SampleSets(S, k) ==
    IF k = 0 THEN {{}}
    ELSE IF k > Cardinality(S) THEN {}
    ELSE LET x == CHOOSE y \in S : TRUE
         IN  SampleSets(S \ {x}, k) \cup {T \cup {x} : T \in SampleSets(S \ {x}, k - 1)}

\* the k-element samples of S as lists (the order of the agents' start cells)
RECURSIVE SampleLists(_, _)
SampleLists(S, k) ==
    IF k = 0 THEN {<<>>}
    ELSE UNION {{<<x>> \o s : s \in SampleLists(S \ {x}, k - 1)} : x \in S}

\* random.sample(available_cells, num_agents), line 64
sample_start_cells(p, S, k) ==
    IF p.seed = "any" THEN SampleLists(S, k)
    ELSE {s \in {[i \in 1 .. k |-> <<i, 1>>]} : Range(s) \subseteq S}

\* random.sample(available_cells, num_obstacles), line 82
sample_obstacle_cells(p, S, k) == SampleSets(S, k)

\* random.sample(available_cells, num_dirty), line 96
sample_dirty_cells(p, S, k) ==
    IF p.seed = "any" THEN SampleSets(S, k)
    ELSE {D \in {{<<p.width - 1 - i, 1>> : i \in 1 .. k}} : D \subseteq S}

(***************************************************************************)
(* CleaningModel.__init__                                                  *)
(***************************************************************************)
\* int((percentage / 100) * total_cells).  The truncated float product equals
\* the integer quotient for every percentage and grid size the configurations
\* below use (percentages 0, 1, 2, 5, 8, 10, 12, 20, 100); for others Python may round down
\* one further, e.g. int((29/100)*100) = 28.
PercentOf(percentage, total_cells) == (percentage * total_cells) \div 100

num_dirty(p) == PercentOf(p.dirty_percentage, p.width * p.height)
num_obstacles(p) == PercentOf(p.obstacle_percentage, p.width * p.height)

\* CleanerAgent.__init__
NewCleaner(cell, station) ==
    [cell |-> cell, battery |-> FullBattery, moves |-> 0, cleaned_cells |-> 0,
     returning_to_charge |-> FALSE, initial_station |-> station,
     path_to_station |-> <<>>, visited_cells |-> {cell}]

\* StationPlacements with the test of line 63 dropped: as many stations as
\* fit are placed and nothing is raised
StationPlacements_underplace(p) ==
    IF p.multi_agent_mode
    THEN LET k == IF p.num_agents <= Cardinality(InteriorCells(p))
                  THEN p.num_agents ELSE Cardinality(InteriorCells(p))
         IN  {[raised |-> FALSE, st |-> s] :
                 s \in sample_start_cells(p, InteriorCells(p), k)}
    ELSE {[raised |-> FALSE, st |-> << <<1, 1>> >>]}

\* the station cells, in creation order, and whether placing them raised
StationPlacements(p) ==
    IF p.multi_agent_mode
    THEN IF p.num_agents <= Cardinality(InteriorCells(p))
         THEN {[raised |-> FALSE, st |-> s] :
                  s \in sample_start_cells(p, InteriorCells(p), p.num_agents)}
         ELSE {[raised |-> TRUE, st |-> <<>>]}
    ELSE {[raised |-> FALSE, st |-> << <<1, 1>> >>]}

\* the random obstacles: placed only when 0 < num_obstacles <= len(available_cells)
ObstaclePlacements(p, available_cells) ==
    IF num_obstacles(p) > 0 /\ num_obstacles(p) <= Cardinality(available_cells)
    THEN sample_obstacle_cells(p, available_cells, num_obstacles(p))
    ELSE {{}}

\* the cells made dirty: only when 0 < num_dirty <= len(available_cells)
DirtyPlacements(p, available_cells) ==
    IF num_dirty(p) > 0 /\ num_dirty(p) <= Cardinality(available_cells)
    THEN sample_dirty_cells(p, available_cells, num_dirty(p))
    ELSE {{}}

\* the cleaners: one per station (multi-agent mode) or all at the one station
InitialCleaners(p, st) ==
    IF p.multi_agent_mode
    THEN [i \in 1 .. Len(st) |-> NewCleaner(st[i], st[i])]
    ELSE [i \in 1 .. p.num_agents |-> NewCleaner(st[1], st[1])]

\* the object as it stands when __init__ raises at line 72: the border is
\* built, the counters of lines 30-31 are set, nothing else is placed, and
\* running is as mesa's Model.__init__ (line 21) set it.  The raise hands no
\* reference to the caller, so step() is never called on it.
RaisedWorld(p) ==
    [params |-> p, constructed |-> "ValueError", obstacles |-> border(p),
     stations |-> <<>>, is_dirty |-> <<>>, cleaners |-> <<>>,
     dirty_cells |-> 0, initial_dirty_cells |-> 0, current_step |-> 0,
     cleaning_completed_at |-> None, running |-> TRUE, final_metrics_calls |-> 0]

BuiltWorld(p, st, obs, dirty) ==
    LET blocked == border(p) \cup obs
        dirtyAgents == GridCells(p) \ (blocked \cup Range(st))
    IN  [params |-> p, constructed |-> "ok", obstacles |-> blocked,
         stations |-> st,
         is_dirty |-> [c \in dirtyAgents |-> c \in dirty],
         cleaners |-> InitialCleaners(p, st),
         dirty_cells |-> num_dirty(p), initial_dirty_cells |-> num_dirty(p),
         current_step |-> 0, cleaning_completed_at |-> None,
         running |-> TRUE, final_metrics_calls |-> 0]

\* every world __init__(p) can return, or the world at its raise
Construct(p) ==
    UNION {
        IF sp.raised THEN {RaisedWorld(p)}
        ELSE UNION {
                {BuiltWorld(p, sp.st, obs, dirty) :
                    dirty \in DirtyPlacements(p, (InteriorCells(p) \ Range(sp.st)) \ obs)}
                : obs \in ObstaclePlacements(p, InteriorCells(p) \ Range(sp.st))}
        : sp \in StationPlacements(p)}

Constructed(configs) ==
    \E p \in configs : \E w \in Construct(p) :
        /\ params = w.params
        /\ constructed = w.constructed
        /\ obstacles = w.obstacles
        /\ stations = w.stations
        /\ is_dirty = w.is_dirty
        /\ cleaners = w.cleaners
        /\ dirty_cells = w.dirty_cells
        /\ initial_dirty_cells = w.initial_dirty_cells
        /\ current_step = w.current_step
        /\ cleaning_completed_at = w.cleaning_completed_at
        /\ running = w.running
        /\ final_metrics_calls = w.final_metrics_calls

\* one model is constructed
InitFrom(configs) == Constructed(configs) /\ statistics = <<>> /\ twin = <<>>

\* two models are constructed with the same arguments and the same seed: every
\* draw of __init__ is a self.random.sample (lines 64, 82, 96) of the
\* generator Model.__init__ seeds at line 21, so the two worlds are the same
InitTwin(configs) ==
    /\ Constructed(configs)
    /\ statistics = <<>>
    /\ twin = IF constructed = "ok"
              THEN <<[cleaners |-> cleaners, is_dirty |-> is_dirty,
                      dirty_cells |-> dirty_cells, running |-> running]>>
              ELSE <<>>

Config(w, h, n, d, o, t, m, seed) ==
    [width |-> w, height |-> h, num_agents |-> n, dirty_percentage |-> d,
     obstacle_percentage |-> o, max_time |-> t, multi_agent_mode |-> m, seed |-> seed]

(***************************************************************************)
(* What a cell holds.  A world w is the part of the state an agent's step  *)
(* reads and writes: [cleaners, is_dirty, dirty_cells].                    *)
(***************************************************************************)
HasObstacle(c) == c \in obstacles
HasStation(c) == c \in Range(stations)
HasDirtyCellAgent(c) == c \in DOMAIN is_dirty
CleanersAt(w, c) == {i \in DOMAIN w.cleaners : w.cleaners[i].cell = c}

\* Cell.is_empty: no agent of any kind on the cell
is_empty(w, c) ==
    ~HasObstacle(c) /\ ~HasStation(c) /\ ~HasDirtyCellAgent(c) /\ CleanersAt(w, c) = {}

World == [cleaners |-> cleaners, is_dirty |-> is_dirty, dirty_cells |-> dirty_cells]

(***************************************************************************)
(* CleanerAgent.dijkstra_path                                              *)
(***************************************************************************)
\* can_move_to of dijkstra_path and of move_towards_station
can_move_to_path(w, self, c) ==
    \/ is_empty(w, c)
    \/ HasStation(c)
    \/ HasDirtyCellAgent(c)
    \/ \E j \in CleanersAt(w, c) : j # self

\* heapq order of the entries <<cost, counter, cell>>
HeapLess(e, f) == e[1] < f[1] \/ (e[1] = f[1] /\ e[2] < f[2])

\* a pop that takes the entry pushed last, whatever its cost
heappop_latest(pq) == CHOOSE e \in pq : \A f \in pq \ {e} : f[2] < e[2]

heappop(pq) == CHOOSE e \in pq : \A f \in pq \ {e} : HeapLess(e, f)

\* the loop over current_cell.neighborhood.cells, from the i-th neighbour on
RECURSIVE explore_neighbors(_, _, _, _, _, _, _)
explore_neighbors(w, self, st, current_cell, current_cost, nbrs, i) ==
    IF i > Len(nbrs) THEN st
    ELSE LET neighbor == nbrs[i]
             new_cost == current_cost + 1
         IN  IF neighbor \in st.visited
             THEN explore_neighbors(w, self, st, current_cell, current_cost, nbrs, i + 1)
             ELSE IF ~can_move_to_path(w, self, neighbor)
             THEN explore_neighbors(w, self, st, current_cell, current_cost, nbrs, i + 1)
             ELSE IF neighbor \notin DOMAIN st.cost_so_far
                     \/ new_cost < st.cost_so_far[neighbor]
             THEN explore_neighbors(w, self,
                      [pq |-> st.pq \cup {<<new_cost, st.counter + 1, neighbor>>},
                       visited |-> st.visited,
                       came_from |-> [c \in DOMAIN st.came_from \cup {neighbor} |->
                                        IF c = neighbor THEN current_cell ELSE st.came_from[c]],
                       cost_so_far |-> [c \in DOMAIN st.cost_so_far \cup {neighbor} |->
                                        IF c = neighbor THEN new_cost ELSE st.cost_so_far[c]],
                       counter |-> st.counter + 1, found |-> st.found,
                       expanded |-> st.expanded],
                      current_cell, current_cost, nbrs, i + 1)
             ELSE explore_neighbors(w, self, st, current_cell, current_cost, nbrs, i + 1)

\* reconstruct_path that keeps the source at the head of the path
RECURSIVE reconstruct_path_with_source(_, _)
reconstruct_path_with_source(came_from, cell) ==
    IF cell \in DOMAIN came_from
    THEN Append(reconstruct_path_with_source(came_from, came_from[cell]), cell)
    ELSE <<cell>>

\* the path rebuilt from came_from, source excluded, target included
RECURSIVE reconstruct_path(_, _)
reconstruct_path(came_from, cell) ==
    IF cell \in DOMAIN came_from
    THEN Append(reconstruct_path(came_from, came_from[cell]), cell)
    ELSE <<>>

\* one iteration of the while pq loop: an entry is popped; a cell already
\* visited is skipped, the target ends the search, any other cell is
\* marked visited and its neighbours explored.  expanded lists the cells in
\* the order line 64 marks them visited.
dijkstra_iteration(w, self, target_cell, st) ==
    LET e == heappop(st.pq)
        popped == [st EXCEPT !.pq = @ \ {e}]
        marked == [popped EXCEPT !.visited = @ \cup {e[3]},
                                 !.expanded = Append(@, e[3])]
    IN  IF e[3] \in st.visited THEN popped
        ELSE IF e[3] = target_cell
        THEN [marked EXCEPT !.found = TRUE]
        ELSE explore_neighbors(w, self, marked,
                               e[3], e[1], neighborhood(params, e[3]), 1)

\* the while pq loop, at most n iterations of it: it ends when the target is
\* popped or the queue is empty.  The n iterations are run as two halves so
\* that the evaluation stays shallow on long paths.
RECURSIVE dijkstra_while(_, _, _, _, _)
dijkstra_while(w, self, target_cell, st, n) ==
    IF st.found \/ st.pq = {} THEN st
    ELSE IF n <= 1 THEN dijkstra_iteration(w, self, target_cell, st)
    ELSE dijkstra_while(w, self, target_cell,
             dijkstra_while(w, self, target_cell, st, n \div 2), n - (n \div 2))

\* no run of the loop pops more entries than this: a cell is pushed at most
\* once by each of its (at most 8) neighbours
MaxPops == 8 * params.width * params.height + 1

\* the search as the while loop leaves it, from the state of lines 38-42
dijkstra_search(w, self, target_cell) ==
    LET source == w.cleaners[self].cell
    IN  dijkstra_while(w, self, target_cell,
            [pq |-> {<<0, 0, source>>}, visited |-> {},
             came_from |-> [c \in {} |-> source],
             cost_so_far |-> [c \in {source} |-> 0],
             counter |-> 0, found |-> FALSE, expanded |-> <<>>],
            MaxPops)

dijkstra_path(w, self, target_cell) ==
    LET final == dijkstra_search(w, self, target_cell)
    IN  IF final.found THEN reconstruct_path(final.came_from, target_cell) ELSE <<>>

(***************************************************************************)
(* CleanerAgent.find_charging_station: the cell of the chosen station, or  *)
(* <<>> for Python's None.                                                 *)
(***************************************************************************)
Abs(x) == IF x < 0 THEN -x ELSE x

ManhattanDistance(a, b) == Abs(a[1] - b[1]) + Abs(a[2] - b[2])

\* the first station, in creation order, at the least Manhattan distance
nearest_station(cell) ==
    LET i == CHOOSE i \in DOMAIN stations :
                 /\ \A j \in DOMAIN stations :
                        ManhattanDistance(cell, stations[i]) <= ManhattanDistance(cell, stations[j])
                 /\ \A j \in 1 .. i - 1 :
                        ManhattanDistance(cell, stations[j]) > ManhattanDistance(cell, stations[i])
    IN  stations[i]

find_charging_station(w, self) ==
    IF stations = <<>> THEN <<>>
    ELSE IF params.multi_agent_mode /\ w.cleaners[self].initial_station \in Range(stations)
    THEN w.cleaners[self].initial_station
    ELSE nearest_station(w.cleaners[self].cell)

(***************************************************************************)
(* CleanerAgent.move_towards_station                                       *)
(***************************************************************************)
\* "path_to_station[0] != neighborhood.select(...).cells" compares a Cell
\* with a list of cells, which are never equal: a cached path is never reused
cached_path_deviates(w, self) == TRUE

\* move_towards_station whose step costs no battery
move_towards_station_unpaid(w, self, target_cell) ==
    LET a == w.cleaners[self]
        path == dijkstra_path(w, self, target_cell)
    IN  IF path = <<>>
        THEN [w EXCEPT !.cleaners[self].path_to_station = <<>>]
        ELSE IF can_move_to_path(w, self, Head(path))
        THEN [w EXCEPT !.cleaners[self] =
                 [a EXCEPT !.cell = Head(path),
                           !.visited_cells = @ \cup {Head(path)},
                           !.moves = @ + 1,
                           !.path_to_station = Tail(path)]]
        ELSE [w EXCEPT !.cleaners[self].path_to_station = <<>>]

\* move_towards_station that, finding no route, steps to a neighbour anyway
move_towards_station_wandering(w, self, target_cell) ==
    LET a == w.cleaners[self]
        path == dijkstra_path(w, self, target_cell)
        open == {c \in Range(neighborhood(params, a.cell)) :
                    can_move_to_path(w, self, c)}
        next_cell == IF path # <<>> THEN Head(path)
                     ELSE IF open # {} THEN CHOOSE c \in open : TRUE
                     ELSE neighborhood(params, a.cell)[1]
    IN  IF can_move_to_path(w, self, next_cell)
        THEN [w EXCEPT !.cleaners[self] =
                 [a EXCEPT !.cell = next_cell,
                           !.visited_cells = @ \cup {next_cell},
                           !.battery = @ - 1,
                           !.moves = @ + 1,
                           !.path_to_station = IF path # <<>> THEN Tail(path) ELSE <<>>]]
        ELSE [w EXCEPT !.cleaners[self].path_to_station = <<>>]

move_towards_station(w, self, target_cell) ==
    LET a == w.cleaners[self]
        path == IF a.path_to_station = <<>> \/ cached_path_deviates(w, self)
                THEN dijkstra_path(w, self, target_cell)
                ELSE a.path_to_station
    IN  IF path = <<>>
        THEN [w EXCEPT !.cleaners[self].path_to_station = <<>>]
        ELSE LET next_cell == Head(path)
             IN  IF can_move_to_path(w, self, next_cell)
                 THEN [w EXCEPT !.cleaners[self] =
                          [a EXCEPT !.cell = next_cell,
                                    !.visited_cells = @ \cup {next_cell},
                                    !.battery = @ - 1,
                                    !.moves = @ + 1,
                                    !.path_to_station = Tail(path)]]
                 ELSE [w EXCEPT !.cleaners[self].path_to_station = <<>>]

(***************************************************************************)
(* CleanerAgent.clean_current_cell                                         *)
(***************************************************************************)
can_clean(w, self) ==
    LET c == w.cleaners[self].cell
    IN  HasDirtyCellAgent(c) /\ w.is_dirty[c]

\* clean_current_cell counting the cleaned cell up instead of down
clean_current_cell_miscount(w, self) ==
    LET a == w.cleaners[self]
    IN  [cleaners |-> [w.cleaners EXCEPT ![self] =
                          [a EXCEPT !.battery = @ - 1, !.cleaned_cells = @ + 1]],
         is_dirty |-> [w.is_dirty EXCEPT ![a.cell] = FALSE],
         dirty_cells |-> w.dirty_cells + 1]

\* clean_current_cell that leaves the cleaner's own count as it was
clean_current_cell_uncredited(w, self) ==
    LET a == w.cleaners[self]
    IN  [cleaners |-> [w.cleaners EXCEPT ![self] = [a EXCEPT !.battery = @ - 1]],
         is_dirty |-> [w.is_dirty EXCEPT ![a.cell] = FALSE],
         dirty_cells |-> w.dirty_cells - 1]

clean_current_cell(w, self) ==
    LET a == w.cleaners[self]
    IN  [cleaners |-> [w.cleaners EXCEPT ![self] =
                          [a EXCEPT !.battery = @ - 1, !.cleaned_cells = @ + 1]],
         is_dirty |-> [w.is_dirty EXCEPT ![a.cell] = FALSE],
         dirty_cells |-> w.dirty_cells - 1]

(***************************************************************************)
(* CleanerAgent.move                                                       *)
(***************************************************************************)
\* can_move_to that lets every neighbour pass
can_move_to_anything(w, c) == TRUE

\* can_move_to of move: other cleaners alone do not make a cell enterable
can_move_to(w, c) == is_empty(w, c) \/ HasStation(c) \/ HasDirtyCellAgent(c)

next_moves(w, self) ==
    {c \in Range(neighborhood(params, w.cleaners[self].cell)) : can_move_to(w, c)}

\* move_choices with the first two priorities swapped: unvisited cells
\* first, then dirty ones, then any
move_choices_unvisited_first(w, self) ==
    LET a == w.cleaners[self]
        nm == next_moves(w, self)
        dirty == {c \in nm : HasDirtyCellAgent(c) /\ w.is_dirty[c]}
        unvisited_cells == nm \ a.visited_cells
    IN  IF unvisited_cells # {} THEN unvisited_cells
        ELSE (IF dirty # {} THEN dirty ELSE nm)

\* the cells move() may choose: dirty ones first (unvisited among them first),
\* then unvisited ones, then any
move_choices(w, self) ==
    LET a == w.cleaners[self]
        nm == next_moves(w, self)
        dirty == {c \in nm : HasDirtyCellAgent(c) /\ w.is_dirty[c]}
        unvisited_dirty == dirty \ a.visited_cells
        unvisited_cells == nm \ a.visited_cells
    IN  IF dirty # {}
        THEN (IF unvisited_dirty # {} THEN unvisited_dirty ELSE dirty)
        ELSE (IF unvisited_cells # {} THEN unvisited_cells ELSE nm)

\* move_to with the move counted down instead of up
move_to_uncounted(w, self, chosen_cell) ==
    [w EXCEPT !.cleaners[self] =
        [@ EXCEPT !.cell = chosen_cell,
                  !.visited_cells = @ \cup {chosen_cell},
                  !.battery = @ - 1,
                  !.moves = @ - 1]]

\* lines 220-223: the cleaner is put on the chosen cell
move_to(w, self, chosen_cell) ==
    [w EXCEPT !.cleaners[self] =
        [@ EXCEPT !.cell = chosen_cell,
                  !.visited_cells = @ \cup {chosen_cell},
                  !.battery = @ - 1,
                  !.moves = @ + 1]]

\* every outcome of move(): one per cell random.choice can return
move(w, self) ==
    IF next_moves(w, self) = {} THEN {w}
    ELSE {move_to(w, self, c) : c \in move_choices(w, self)}

(***************************************************************************)
(* CleanerAgent.step: every world the agent's activation can leave.        *)
(***************************************************************************)
Min(a, b) == IF a <= b THEN a ELSE b

\* charge filling the battery at once
charge_to_full(w, self) ==
    [w EXCEPT !.cleaners[self].battery = FullBattery,
              !.cleaners[self].returning_to_charge = TRUE]

\* lines 233-238: one tick of charging
charge(w, self) ==
    [w EXCEPT !.cleaners[self].battery = Min(FullBattery, @ + ChargeIncrement),
              !.cleaners[self].returning_to_charge = TRUE]

\* return_to_station that first cleans the cell the cleaner stands on
return_to_station_after_cleaning(w, self) ==
    LET flagged == [w EXCEPT !.cleaners[self].returning_to_charge = TRUE]
        station == find_charging_station(flagged, self)
    IN  IF can_clean(w, self) THEN clean_current_cell(flagged, self)
        ELSE IF station # <<>> THEN move_towards_station(flagged, self, station)
        ELSE flagged

\* lines 244-250: the low-battery branch
return_to_station(w, self) ==
    LET flagged == [w EXCEPT !.cleaners[self].returning_to_charge = TRUE]
        station == find_charging_station(flagged, self)
    IN  IF station # <<>> THEN move_towards_station(flagged, self, station) ELSE flagged

\* clean_or_move that moves on in the tick in which it cleaned
clean_and_move(w, self) ==
    IF w.cleaners[self].battery <= 0 THEN {w}
    ELSE IF can_clean(w, self) THEN move(clean_current_cell(w, self), self)
    ELSE move(w, self)

\* lines 252-261: clean the cell, or else move
clean_or_move(w, self) ==
    IF w.cleaners[self].battery <= 0 THEN {w}
    ELSE IF can_clean(w, self) THEN {clean_current_cell(w, self)}
    ELSE move(w, self)

agent_step(w, self) ==
    LET a == w.cleaners[self]
        at_charging_station == HasStation(a.cell)
    IN  IF at_charging_station /\ a.battery < FullBattery
        THEN {charge(w, self)}
        ELSE LET w1 == IF at_charging_station
                       THEN [w EXCEPT !.cleaners[self].returning_to_charge = FALSE]
                       ELSE w
             IN  IF a.battery <= LowBattery /\ ~at_charging_station
                 THEN {return_to_station(w1, self)}
                 ELSE clean_or_move(w1, self)

(***************************************************************************)
(* CleaningModel.step                                                      *)
(***************************************************************************)
\* the orders shuffle_do can activate the cleaners in (the fixed agents'
\* step is pass)
RECURSIVE Orders(_)
Orders(S) ==
    IF S = {} THEN {<<>>}
    ELSE UNION {{<<i>> \o o : o \in Orders(S \ {i})} : i \in S}

\* shuffle_do in which every cleaner steps from the world as it was when
\* the tick began, the results then put together
shuffle_do_at_once(ws, order) ==
    UNION {
        LET S == Range(order)
            results == UNION {agent_step(w, i) : i \in S}
        IN  {[cleaners |-> [i \in DOMAIN w.cleaners |->
                               IF i \in S THEN f[i].cleaners[i] ELSE w.cleaners[i]],
              is_dirty |-> [c \in DOMAIN w.is_dirty |->
                               \A i \in S : f[i].is_dirty[c]],
              dirty_cells |-> w.dirty_cells
                               - Cardinality({i \in S : f[i].dirty_cells < w.dirty_cells})]
             : f \in {g \in [S -> results] : \A i \in S : g[i] \in agent_step(w, i)}}
        : w \in ws}

\* self.agents.shuffle_do("step"): the worlds left after the cleaners of
\* order have each stepped once, one after the other
RECURSIVE shuffle_do(_, _)
shuffle_do(ws, order) ==
    IF order = <<>> THEN ws
    ELSE shuffle_do(UNION {agent_step(w, Head(order)) : w \in ws}, Tail(order))

\* completed_at without the "is None" test: every tick that ends clean
\* overwrites the completion time
completed_at_overwrite(w, step) ==
    IF w.dirty_cells <= 0 THEN step ELSE cleaning_completed_at

\* model.py:149-150
completed_at(w, step) ==
    IF w.dirty_cells <= 0 /\ cleaning_completed_at = None
    THEN step
    ELSE cleaning_completed_at

\* model.py:162-169
all_agents_dead(w) ==
    \A i \in DOMAIN w.cleaners :
        ~(w.cleaners[i].battery > 0 \/ HasStation(w.cleaners[i].cell))

\* stop_conditions without the max_time test of line 153
stop_conditions_no_max_time(w, step) ==
    <<FALSE, w.dirty_cells <= 0, all_agents_dead(w)>>

\* stop_conditions without the dirty_cells test of line 157
stop_conditions_no_dirty_test(w, step) ==
    <<step >= params.max_time, FALSE, all_agents_dead(w)>>

\* the stopping conditions of model.py:153, 157 and 171 that hold, as a
\* sequence of booleans in the order step() tests them
stop_conditions(w, step) ==
    <<step >= params.max_time, w.dirty_cells <= 0, all_agents_dead(w)>>

\* each condition that holds clears running and calls _print_final_metrics
metrics_calls_in_step(w, step) ==
    Cardinality({k \in 1 .. 3 : stop_conditions(w, step)[k]})

running_after(w, step) ==
    IF \E k \in 1 .. 3 : stop_conditions(w, step)[k] THEN FALSE ELSE running

\* one call of step() on a constructed model; the driver may go on calling
\* it after running is cleared
Step ==
    /\ constructed = "ok"
    /\ current_step < params.max_time + ExtraSteps
    /\ \E order \in Orders(DOMAIN cleaners) :
         \E w \in shuffle_do({World}, order) :
            /\ current_step' = current_step + 1
            /\ cleaners' = w.cleaners
            /\ is_dirty' = w.is_dirty
            /\ dirty_cells' = w.dirty_cells
            /\ cleaning_completed_at' = completed_at(w, current_step + 1)
            /\ running' = running_after(w, current_step + 1)
            /\ final_metrics_calls' =
                   final_metrics_calls + metrics_calls_in_step(w, current_step + 1)
    /\ UNCHANGED <<params, constructed, obstacles, stations, initial_dirty_cells,
                   statistics, twin>>

(***************************************************************************)
(* The random generators.  self.random is the generator Model.__init__     *)
(* seeds with the seed argument (line 21): sample, choice and shuffle_do   *)
(* draw from it.  The grid is built by OrthogonalMooreGrid([width,         *)
(* height], torus=False) (line 33) with no generator passed to it, so the  *)
(* grid, its cells and their neighbourhoods draw from a generator of the   *)
(* grid's own that the seed does not reach: select_random_cell             *)
(* (agent.py:217) draws from that one.                                     *)
(***************************************************************************)
\* the activation gets as far as move(): no charging, no return to the
\* station, battery left, nothing cleaned
reaches_move(w, self) ==
    LET a == w.cleaners[self]
        at_charging_station == HasStation(a.cell)
    IN  /\ ~(at_charging_station /\ a.battery < FullBattery)
        /\ ~(a.battery <= LowBattery /\ ~at_charging_station)
        /\ a.battery > 0
        /\ ~can_clean(w, self)

\* the draw the activation makes: from which generator, and among which cells
random_draw(w, self) ==
    LET a == w.cleaners[self]
        nm == next_moves(w, self)
        dirty == {c \in nm : HasDirtyCellAgent(c) /\ w.is_dirty[c]}
    IN  IF ~reaches_move(w, self) \/ nm = {}
        THEN [generator |-> "none", source |-> a.cell, population |-> {}]
        ELSE IF dirty # {} \/ nm \ a.visited_cells # {}
        THEN [generator |-> "self.random", source |-> a.cell,
              population |-> move_choices(w, self)]
        ELSE [generator |-> "grid.random", source |-> a.cell, population |-> nm]

\* two models with the same seed whose self.random has answered the same
\* requests so far activate a cleaner each, in worlds w and v, and leave w2
\* and v2.  The same request to self.random gets the same answer in both; a
\* draw from the grid's generator is free in each.  Where one model asks
\* self.random what the other does not, the pair is not followed further.
same_seed_outcomes(w, v, self, w2, v2) ==
    LET dw == random_draw(w, self)
        dv == random_draw(v, self)
    IN  IF dw.generator = "self.random" \/ dv.generator = "self.random"
        THEN dw = dv /\ w2.cleaners[self].cell = v2.cleaners[self].cell
        ELSE TRUE

TwinWorld ==
    [cleaners |-> twin[1].cleaners, is_dirty |-> twin[1].is_dirty,
     dirty_cells |-> twin[1].dirty_cells]

\* step() is called on both models, each with a single cleaner
TwinStep ==
    /\ constructed = "ok" /\ twin # <<>>
    /\ DOMAIN cleaners = {1}
    /\ current_step < params.max_time + ExtraSteps
    /\ \E w \in agent_step(World, 1) : \E v \in agent_step(TwinWorld, 1) :
          /\ same_seed_outcomes(World, TwinWorld, 1, w, v)
          /\ current_step' = current_step + 1
          /\ cleaners' = w.cleaners
          /\ is_dirty' = w.is_dirty
          /\ dirty_cells' = w.dirty_cells
          /\ cleaning_completed_at' = completed_at(w, current_step + 1)
          /\ running' = running_after(w, current_step + 1)
          /\ final_metrics_calls' =
                 final_metrics_calls + metrics_calls_in_step(w, current_step + 1)
          /\ twin' = <<[cleaners |-> v.cleaners, is_dirty |-> v.is_dirty,
                        dirty_cells |-> v.dirty_cells,
                        running |-> IF \E k \in 1 .. 3 :
                                          stop_conditions(v, current_step + 1)[k]
                                    THEN FALSE ELSE twin[1].running]>>
    /\ UNCHANGED <<params, constructed, obstacles, stations, initial_dirty_cells,
                   statistics>>

(***************************************************************************)
(* CleaningModel.get_statistics                                            *)
(***************************************************************************)
RECURSIVE SumOver(_, _)
SumOver(f, S) ==
    IF S = {} THEN 0
    ELSE LET i == CHOOSE j \in S : TRUE IN f[i] + SumOver(f, S \ {i})

total_moves == SumOver([i \in DOMAIN cleaners |-> cleaners[i].moves], DOMAIN cleaners)

total_cleaned ==
    SumOver([i \in DOMAIN cleaners |-> cleaners[i].cleaned_cells], DOMAIN cleaners)

\* (initial - current) / initial * 100 as the exact fraction <<numerator,
\* denominator>>; 100 when there was nothing to clean
clean_percentage ==
    IF initial_dirty_cells > 0
    THEN <<(initial_dirty_cells - dirty_cells) * 100, initial_dirty_cells>>
    ELSE <<100, 1>>

\* "cleaning_completed_at if cleaning_completed_at else current_step": None
\* and 0 are both falsy
completion_time ==
    IF cleaning_completed_at # None /\ cleaning_completed_at # 0
    THEN cleaning_completed_at
    ELSE current_step

get_statistics ==
    [steps |-> current_step,
     completion_time |-> completion_time,
     dirty_cells_remaining |-> dirty_cells,
     initial_dirty_cells |-> initial_dirty_cells,
     total_moves |-> total_moves,
     total_cleaned |-> total_cleaned,
     clean_percentage |-> clean_percentage,
     agent_statistics |-> [i \in DOMAIN cleaners |->
         [agent_id |-> i, moves |-> cleaners[i].moves,
          cleaned_cells |-> cleaners[i].cleaned_cells,
          battery |-> cleaners[i].battery]]]

\* the attributes of the model and of its occupants
attributes ==
    [cleaners |-> cleaners, is_dirty |-> is_dirty, dirty_cells |-> dirty_cells,
     initial_dirty_cells |-> initial_dirty_cells, current_step |-> current_step,
     cleaning_completed_at |-> cleaning_completed_at, running |-> running]

\* get_statistics storing the completion time it reports
attributes_after_get_statistics_storing ==
    [attributes EXCEPT !.cleaning_completed_at = completion_time]

\* the attributes as lines 192-229 leave them: the sums, the comprehension
\* and the dictionary read the attributes and assign none
attributes_after_get_statistics == attributes

\* the driver calls get_statistics() between two step() calls
GetStatistics ==
    /\ constructed = "ok"
    /\ statistics' = <<get_statistics>>
    /\ LET after == attributes_after_get_statistics
       IN  /\ cleaners' = after.cleaners
           /\ is_dirty' = after.is_dirty
           /\ dirty_cells' = after.dirty_cells
           /\ initial_dirty_cells' = after.initial_dirty_cells
           /\ current_step' = after.current_step
           /\ cleaning_completed_at' = after.cleaning_completed_at
           /\ running' = after.running
    /\ UNCHANGED <<params, constructed, obstacles, stations, final_metrics_calls,
                   twin>>

(***************************************************************************)
(* Specifications.                                                         *)
(***************************************************************************)
Next == Step

\* the driver also reads the statistics between ticks
NextWithStatistics == Step \/ GetStatistics

\* small grids, one or two cleaners, both modes, a few ticks
SmallConfigs ==
    {Config(w, h, n, d, o, t, m, "any") :
        w \in 3 .. MaxWidth, h \in {3, 4}, n \in {1, 2}, d \in {0, 10, 20, 100},
        o \in {0, 10}, t \in 1 .. MaxTime, m \in BOOLEAN}

\* the 10 x 10 scenarios: one cleaner at the single station, no obstacles,
\* nothing or everything requested dirty
ScenarioConfigs ==
    {Config(10, 10, 1, d, 0, t, FALSE, "any") : d \in {0, 100}, t \in 1 .. MaxTime}

\* two cleaners in a corridor CorridorLen cells long, their stations on its
\* first two cells, for runs long enough to run the batteries down: the
\* cleaners walk away from the stations until the battery is low
LongConfigs ==
    {Config(CorridorLen + 2, 3, 2, d, 0, t, TRUE, "corridor") :
        d \in {1, 2}, t \in {LongTime - 20, LongTime}}

Init == InitFrom(SmallConfigs \cup ScenarioConfigs \cup LongConfigs)

Spec == Init /\ [][Next]_vars

\* one cleaner in a corridor of five cells with its station at one end, one
\* obstacle and one dirty cell somewhere in the corridor: the dirt may lie
\* behind the obstacle, and the cleaner then paces until max_time
BlockedCorridorConfigs == {Config(7, 3, 1, 5, 5, WalkTime, FALSE, "any")}

\* one cleaner on a 5 x 5 grid with three obstacles among the interior cells
ObstacleGridConfigs == {Config(5, 5, 1, 0, 12, 1, FALSE, "any")}

\* the same grid with two dirty cells as well
DirtyGridConfigs == {Config(5, 5, 1, 8, 12, 1, FALSE, "any")}

\* one or two cleaners on the 4 x 4 grid, one or three of the three free
\* cells dirty, in both modes
TwoByTwoConfigs ==
    {Config(4, 4, n, d, 0, 2, m, "any") : n \in {1, 2}, d \in {10, 20}, m \in BOOLEAN}

\* the runs in which the cleaners explore and clean: pacing in the blocked
\* corridor, around obstacles on the 5 x 5 grid, side by side on the 4 x 4 grid
SpecExplore ==
    InitFrom(BlockedCorridorConfigs \cup DirtyGridConfigs \cup TwoByTwoConfigs)
        /\ [][Next]_vars

\* runs in which the driver reads the statistics at any tick
SpecStatistics ==
    InitFrom(TwoByTwoConfigs \cup BlockedCorridorConfigs)
        /\ [][NextWithStatistics]_vars

\* two models with one cleaner each, constructed with the same arguments
\* and seed, stepped together
NextTwin == TwinStep

OneCleanerConfigs == {c \in TwoByTwoConfigs : c.num_agents = 1}

SpecTwin ==
    InitTwin(BlockedCorridorConfigs \cup OneCleanerConfigs) /\ [][NextTwin]_vars

\* the corridor runs alone, in which the batteries run low
SpecLong == InitFrom(LongConfigs) /\ [][Next]_vars

SpecWalk ==
    InitFrom(BlockedCorridorConfigs \cup ObstacleGridConfigs) /\ [][Next]_vars

\* two cleaners that leave the one station together and walk a corridor of
\* 82 cells side by side: its last two cells are dirty, and they step on
\* the first of them in tick 80
InStepConfigs == {Config(84, 3, 2, 1, 0, LongTime - 20, FALSE, "corridor")}

\* the runs in which two cleaners come to stand on one cell: side by side on
\* the 4 x 4 grid, and at the end of the corridor with their batteries low
SpecShared == InitFrom(InStepConfigs \cup TwoByTwoConfigs) /\ [][Next]_vars

\* two cleaners, their stations on the first two cells of a corridor of
\* ReturnLen cells: they walk to its end and wander back.  More dirt is asked
\* for than there are cells, so none is placed and the run goes on to max_time
ReturnConfigs == {Config(ReturnLen + 2, 3, 2, 100, 0, ReturnTime, TRUE, "corridor")}

SpecReturn == InitFrom(ReturnConfigs) /\ [][Next]_vars

\* the blocked corridor for PaceTime ticks: a cleaner that keeps off the
\* station has a low battery from tick 80 on
PacingConfigs == {Config(7, 3, 1, 5, 5, PaceTime, FALSE, "any")}

SpecPace == InitFrom(PacingConfigs) /\ [][Next]_vars

(***************************************************************************)
(* Properties.                                                             *)
(***************************************************************************)
Built == constructed = "ok"

OnStation(i) == HasStation(cleaners[i].cell)

\* every cleaner is out of battery (0 or below) away from any station
AllDepletedOffStation ==
    \A i \in DOMAIN cleaners : cleaners[i].battery <= 0 /\ ~OnStation(i)

\* every cleaner has battery exactly 0 away from any station
AllAtZeroOffStation ==
    \A i \in DOMAIN cleaners : cleaners[i].battery = 0 /\ ~OnStation(i)

DirtyNow == {c \in DOMAIN is_dirty : is_dirty[c]}

\* C1: in every state reached by step() calls from a constructed model, every
\* cleaner's battery is within 0..100.
C1_BatteryInRange ==
    Built => \A i \in DOMAIN cleaners :
                 0 <= cleaners[i].battery /\ cleaners[i].battery <= FullBattery

\* C2: every step() advances the tick counter by one and running is cleared
\* once the counter has reached max_time, so a run of repeated step() calls
\* clears running by tick max_time at the latest; the step that clears it
\* ends with dirty_cells at 0, or the tick counter at max_time, or every
\* cleaner depleted away from the stations.
C2_RunStops ==
    /\ [](Built /\ current_step >= params.max_time => ~running)
    /\ [][/\ current_step' = current_step + 1
          /\ (running /\ ~running') =>
                (dirty_cells' = 0 \/ current_step' >= params.max_time
                   \/ AllDepletedOffStation')]_vars

\* a run stopped by starvation: dirt is left and max_time is not reached
C2_Witness ==
    /\ Built /\ ~running
    /\ dirty_cells > 0 /\ current_step < params.max_time
    /\ AllDepletedOffStation

\* C3: a step() ends with running cleared if (a) dirty_cells is 0, (b) the
\* tick counter has reached max_time or (c) every cleaner has battery 0 and is
\* on no station; and a step() that began with running set and ends with none
\* of (a), (b), (c) leaves running set.
C3_StopRule ==
    [][current_step' = current_step + 1 =>
         LET stop == dirty_cells' = 0 \/ current_step' >= params.max_time
                       \/ AllAtZeroOffStation'
         IN  /\ stop => ~running'
             /\ (running /\ ~stop) => running']_vars

\* C4: construction raises whenever more obstacle cells or more dirty cells
\* are requested than there are cells to place them on, and a model that is
\* constructed holds as many of each as requested.
C4_ConstructionFails ==
    Built =>
        /\ num_obstacles(params) <= Cardinality(InteriorCells(params) \ Range(stations))
        /\ num_dirty(params) <= Cardinality(DOMAIN is_dirty)
        /\ current_step = 0 =>
              /\ Cardinality(obstacles \ border(params)) = num_obstacles(params)
              /\ Cardinality(DirtyNow) = num_dirty(params)

\* C5: in multi-agent mode, asking for more agents than there are interior
\* cells raises with no station and no cleaner placed, and no step() runs on
\* what was built up to the raise.
C5_TooManyAgentsRaises ==
    (params.multi_agent_mode /\ params.num_agents > Cardinality(InteriorCells(params)))
        => /\ constructed = "ValueError"
           /\ stations = <<>> /\ cleaners = <<>>
           /\ current_step = 0 /\ ~ENABLED Next

\* two agents asked for on a grid with a single interior cell
C5_Witness ==
    /\ params.multi_agent_mode
    /\ params.num_agents > Cardinality(InteriorCells(params))
    /\ InteriorCells(params) # {}
    /\ constructed = "ValueError"

Scenario10x10(d) ==
    /\ params.width = 10 /\ params.height = 10
    /\ params.num_agents = 1 /\ ~params.multi_agent_mode
    /\ params.dirty_percentage = d

\* C6: on the 10 x 10 grid with dirty_percentage 100, one cleaner and the
\* single station, every interior cell but the station's starts dirty, and
\* the run ends with no dirty cell left and total_moves >= total_cleaned.
C6_AllDirtyThenClean ==
    (Scenario10x10(100) /\ Built) =>
        /\ current_step = 0 =>
              \A c \in InteriorCells(params) \ Range(stations) :
                  c \in DOMAIN is_dirty /\ is_dirty[c]
        /\ ~running =>
              /\ get_statistics.dirty_cells_remaining = 0
              /\ get_statistics.total_moves >= get_statistics.total_cleaned

\* C7: on the 10 x 10 grid with dirty_percentage 0, obstacle_percentage 0,
\* one cleaner and the single station, the first step() ends at tick 1 with
\* running cleared and get_statistics() reporting clean_percentage 100.
C7_CleanGridStopsAtOnce ==
    [][(Scenario10x10(0) /\ params.obstacle_percentage = 0 /\ Built /\ current_step = 0) =>
         /\ current_step' = 1
         /\ ~running'
         /\ get_statistics'.clean_percentage[1] = 100 * get_statistics'.clean_percentage[2]]_vars

C7_Witness ==
    /\ Scenario10x10(0) /\ params.obstacle_percentage = 0 /\ Built
    /\ current_step = 1 /\ ~running
    /\ get_statistics.clean_percentage = <<100, 1>>

\* C8: _print_final_metrics runs exactly once in a run, in the step() that
\* clears running, however many stop conditions hold in that step.
C8_MetricsOnce ==
    [][/\ running' => final_metrics_calls' = 0
       /\ (running /\ ~running') => final_metrics_calls' = 1]_vars

\* C9: cleaning_completed_at is the tick of the first step() that ends with
\* dirty_cells at 0, get_statistics() reports it as completion_time, and no
\* later step() changes it.
C9_CompletionTime ==
    [][/\ (cleaning_completed_at = None /\ dirty_cells' = 0)
              => cleaning_completed_at' = current_step'
       /\ (cleaning_completed_at = None /\ dirty_cells' # 0)
              => cleaning_completed_at' = None
       /\ cleaning_completed_at # None
              => cleaning_completed_at' = cleaning_completed_at
       /\ cleaning_completed_at' # None
              => get_statistics'.completion_time = cleaning_completed_at']_vars

\* the cleaners cleaned the last dirty cell and step() was called again
C9_Witness ==
    /\ initial_dirty_cells > 0
    /\ cleaning_completed_at # None
    /\ current_step > cleaning_completed_at

\* C10: no step() increases dirty_cells, and no DirtyCell that is clean is
\* dirty after a step().
C10_DirtNeverReturns ==
    [][/\ dirty_cells' <= dirty_cells
       /\ \A c \in DOMAIN is_dirty : ~is_dirty[c] => ~is_dirty'[c]]_vars

\* a cell that started dirty has been cleaned
C10_Witness ==
    /\ Built
    /\ dirty_cells < initial_dirty_cells
    /\ Cardinality(DirtyNow) < initial_dirty_cells
    /\ \E i \in DOMAIN cleaners : cleaners[i].cleaned_cells > 0

\* C11: no step() lowers any cleaner's moves or cleaned_cells.
C11_CountersNeverDecrease ==
    [][\A i \in DOMAIN cleaners :
          /\ cleaners'[i].moves >= cleaners[i].moves
          /\ cleaners'[i].cleaned_cells >= cleaners[i].cleaned_cells]_vars

\* a cleaner has both moved and cleaned
C11_Witness ==
    /\ Built /\ current_step >= 2
    /\ \E i \in DOMAIN cleaners : cleaners[i].moves > 0 /\ cleaners[i].cleaned_cells > 0

(***************************************************************************)
(* The activations of one step(): shuffle_do activates the cleaners one    *)
(* after the other, so a cleaner is activated in the world the cleaners    *)
(* before it in the order have left.                                       *)
(***************************************************************************)
\* the pairs <<w, i>>: cleaner i is activated in world w, after the cleaners
\* outside remaining have stepped and left one of the worlds ws
RECURSIVE ActivationsFrom(_, _)
ActivationsFrom(ws, remaining) ==
    UNION {{<<w, i>> : w \in ws}
             \cup ActivationsFrom(UNION {agent_step(w, i) : w \in ws}, remaining \ {i})
           : i \in remaining}

\* every activation the next step() can make from the current state
Activations ==
    IF Built THEN ActivationsFrom({World}, DOMAIN cleaners) ELSE {}

\* the cleaner's own fields the statistics and the grid show
Same(a, b, fields) == \A f \in fields : a[f] = b[f]

\* C16: a cleaner activated with battery 0 on a cell without a station is
\* left where it was, with the same battery, moves and cleaned_cells.
C16_DepletedStaysPut ==
    \A act \in Activations :
        LET w == act[1]
            i == act[2]
        IN  (w.cleaners[i].battery = 0 /\ ~HasStation(w.cleaners[i].cell)) =>
                \A w2 \in agent_step(w, i) :
                    Same(w.cleaners[i], w2.cleaners[i],
                         {"cell", "battery", "moves", "cleaned_cells"})

(***************************************************************************)
(* Routes on the grid, by breadth-first search: a route is a sequence of   *)
(* cells without obstacle, each an 8-neighbour of the one before.          *)
(***************************************************************************)
Traversable(c) == c \in GridCells(params) /\ ~HasObstacle(c)

Adjacent(a, b) == a # b /\ Abs(a[1] - b[1]) <= 1 /\ Abs(a[2] - b[2]) <= 1

\* one more level of the search: the traversable cells next to the frontier
\* that were not seen before
Grow(st) ==
    LET nxt == {c \in UNION {Range(neighborhood(params, f)) : f \in st.frontier} :
                   Traversable(c) /\ c \notin st.seen}
    IN  [seen |-> st.seen \cup nxt, frontier |-> nxt, level |-> st.level + 1]

\* at most n levels, ending when the target is seen or no cell is left
RECURSIVE GrowUntil(_, _, _)
GrowUntil(st, target, n) ==
    IF target \in st.seen \/ st.frontier = {} THEN st
    ELSE IF n <= 1 THEN Grow(st)
    ELSE GrowUntil(GrowUntil(st, target, n \div 2), target, n - (n \div 2))

\* the length of a shortest route from source to target, -1 when there is none
Distance(source, target) ==
    LET st == GrowUntil([seen |-> {source}, frontier |-> {source}, level |-> 0],
                        target, params.width * params.height)
    IN  IF target \in st.seen THEN st.level ELSE -1

\* C17: a cleaner activated off-station with 0 < battery <= 20 cleans nothing
\* that tick, whatever is dirty on or around its cell; when a route to its
\* station exists it moves to an 8-neighbour that is one step nearer to the
\* station along a shortest route, at the cost of 1 battery and with one more
\* move; when there is none it stays where it is.
C17_LowBatteryHeadsHome ==
    \A act \in Activations :
        LET w == act[1]
            i == act[2]
            a == w.cleaners[i]
            target == find_charging_station(w, i)
            d == IF target = <<>> THEN -1 ELSE Distance(a.cell, target)
        IN  (~HasStation(a.cell) /\ 0 < a.battery /\ a.battery <= LowBattery) =>
                \A w2 \in agent_step(w, i) :
                    LET b == w2.cleaners[i]
                    IN  /\ w2.is_dirty = w.is_dirty /\ w2.dirty_cells = w.dirty_cells
                        /\ b.cleaned_cells = a.cleaned_cells
                        /\ d > 0 => /\ Adjacent(a.cell, b.cell) /\ Traversable(b.cell)
                                    /\ Distance(b.cell, target) = d - 1
                                    /\ b.battery = a.battery - 1
                                    /\ b.moves = a.moves + 1
                        /\ d < 0 => Same(a, b, {"cell", "battery", "moves"})

\* a cleaner with a low battery stands on a dirty cell, away from its station
C17_Witness ==
    \E act \in Activations :
        LET w == act[1]
            i == act[2]
            a == w.cleaners[i]
        IN  /\ ~HasStation(a.cell) /\ 0 < a.battery /\ a.battery <= LowBattery
            /\ can_clean(w, i)
            /\ \E c \in Range(neighborhood(params, a.cell)) :
                   HasDirtyCellAgent(c) /\ w.is_dirty[c]
            /\ Distance(a.cell, find_charging_station(w, i)) > 1
            /\ \E w2 \in agent_step(w, i) : w2.cleaners[i].cell # a.cell

\* C18: a cleaner activated on a station cell with battery b < 100 ends the
\* activation with battery min(100, b + 5) on the same cell, with the same
\* moves, cleaned_cells and visited cells, and no dirty flag or dirty count
\* changed; activated there with battery 100 it ends with returning_to_charge
\* cleared and, if a neighbour can be entered, has moved off its cell.
C18_ChargingAtStation ==
    \A act \in Activations :
        LET w == act[1]
            i == act[2]
            a == w.cleaners[i]
        IN  HasStation(a.cell) =>
                \A w2 \in agent_step(w, i) :
                    LET b == w2.cleaners[i]
                    IN  /\ a.battery < 100 =>
                              /\ b.battery = (IF a.battery + 5 > 100 THEN 100
                                              ELSE a.battery + 5)
                              /\ Same(a, b, {"cell", "moves", "cleaned_cells",
                                             "visited_cells"})
                              /\ w2.is_dirty = w.is_dirty
                              /\ w2.dirty_cells = w.dirty_cells
                        /\ a.battery = 100 =>
                              /\ ~b.returning_to_charge
                              /\ next_moves(w, i) # {} =>
                                    /\ b.cell # a.cell
                                    /\ b.moves = a.moves + 1

\* a cleaner back on its station after at least six moves, the run still on
C18_Witness ==
    /\ running
    /\ \E act \in Activations :
          LET a == act[1].cleaners[act[2]]
          IN  /\ HasStation(a.cell) /\ a.battery <= 94
              /\ \E w2 \in agent_step(act[1], act[2]) :
                     w2.cleaners[act[2]].battery = a.battery + 5

\* C19: a cleaner with battery > 20 activated on a dirty cell cleans it in
\* that activation: the cell's is_dirty becomes false and no other flag
\* changes, dirty_cells falls by 1, its cleaned_cells rises by 1, its battery
\* falls by 1, and its cell and moves are unchanged.
C19_CleaningConsumesTheTick ==
    \A act \in Activations :
        LET w == act[1]
            i == act[2]
            a == w.cleaners[i]
        IN  (a.battery > 20 /\ HasDirtyCellAgent(a.cell) /\ w.is_dirty[a.cell]) =>
                \A w2 \in agent_step(w, i) :
                    LET b == w2.cleaners[i]
                    IN  /\ w2.is_dirty = [w.is_dirty EXCEPT ![a.cell] = FALSE]
                        /\ w2.dirty_cells = w.dirty_cells - 1
                        /\ b.cleaned_cells = a.cleaned_cells + 1
                        /\ b.battery = a.battery - 1
                        /\ Same(a, b, {"cell", "moves", "visited_cells"})

\* a cleaner with battery > 20 is activated on a dirty cell that has a dirty
\* neighbour it could move to
C19_Witness ==
    running /\ \E act \in Activations :
        LET w == act[1]
            a == w.cleaners[act[2]]
        IN  /\ a.battery > 20 /\ HasDirtyCellAgent(a.cell) /\ w.is_dirty[a.cell]
            /\ \E c \in next_moves(w, act[2]) : HasDirtyCellAgent(c) /\ w.is_dirty[c]
            /\ \E w2 \in agent_step(w, act[2]) : ~w2.is_dirty[a.cell]

\* the cleaner explores when activated: battery > 20, nothing to clean on its
\* cell, and not held on a station by a battery below 100
Exploring(w, i) ==
    LET a == w.cleaners[i]
    IN  /\ a.battery > 20
        /\ ~(HasDirtyCellAgent(a.cell) /\ w.is_dirty[a.cell])
        /\ ~(HasStation(a.cell) /\ a.battery < 100)

\* the destinations the priority rule allows: the unvisited dirty
\* neighbours, else the dirty ones, else the unvisited ones, else all
PreferredNeighbours(w, i) ==
    LET a == w.cleaners[i]
        nbrs == {c \in GridCells(params) : Adjacent(a.cell, c) /\ Traversable(c)}
        dirtyN == {c \in nbrs : HasDirtyCellAgent(c) /\ w.is_dirty[c]}
    IN  IF dirtyN \ a.visited_cells # {} THEN dirtyN \ a.visited_cells
        ELSE IF dirtyN # {} THEN dirtyN
        ELSE IF nbrs \ a.visited_cells # {} THEN nbrs \ a.visited_cells
        ELSE nbrs

\* C20: an exploring cleaner with a traversable 8-neighbour moves to one of
\* the neighbours the priority rule allows (dirty and unvisited, else dirty,
\* else unvisited, else any), each of them being possible; the move costs 1
\* battery, counts 1 move and adds the destination to the visited cells, and
\* changes nothing else; with no traversable neighbour nothing changes.
C20_ExplorePriority ==
    \A act \in Activations :
        LET w == act[1]
            i == act[2]
            a == w.cleaners[i]
            allowed == PreferredNeighbours(w, i)
        IN  Exploring(w, i) =>
                IF allowed = {}
                THEN \A w2 \in agent_step(w, i) :
                        /\ Same(a, w2.cleaners[i], {"cell", "battery", "moves",
                                                    "cleaned_cells", "visited_cells"})
                        /\ w2.is_dirty = w.is_dirty /\ w2.dirty_cells = w.dirty_cells
                ELSE /\ {w2.cleaners[i].cell : w2 \in agent_step(w, i)} = allowed
                     /\ \A w2 \in agent_step(w, i) :
                            LET b == w2.cleaners[i]
                            IN  /\ b.battery = a.battery - 1
                                /\ b.moves = a.moves + 1
                                /\ b.visited_cells = a.visited_cells \cup {b.cell}
                                /\ b.cleaned_cells = a.cleaned_cells
                                /\ w2.is_dirty = w.is_dirty
                                /\ w2.dirty_cells = w.dirty_cells

\* an exploring cleaner next to a dirty cell and to a clean cell it has not
\* visited: the dirty one is where it goes
C20_Witness ==
    running /\ \E act \in Activations :
        LET w == act[1]
            i == act[2]
            a == w.cleaners[i]
            nbrs == {c \in GridCells(params) : Adjacent(a.cell, c) /\ Traversable(c)}
        IN  /\ Exploring(w, i)
            /\ \E c \in nbrs : HasDirtyCellAgent(c) /\ w.is_dirty[c]
            /\ \E c \in nbrs \ a.visited_cells : ~(HasDirtyCellAgent(c) /\ w.is_dirty[c])
            /\ \E w2 \in agent_step(w, i) :
                   /\ HasDirtyCellAgent(w2.cleaners[i].cell)
                   /\ w.is_dirty[w2.cleaners[i].cell]

(***************************************************************************)
(* dijkstra_path as a function: from the cell of any cleaner to any cell   *)
(* of the grid, in any state.                                              *)
(***************************************************************************)
Max(a, b) == IF a >= b THEN a ELSE b

Chebyshev(a, b) == Max(Abs(a[1] - b[1]), Abs(a[2] - b[2]))

\* the cells of the rectangle spanned by a and b
Between(a, b) ==
    {c \in GridCells(params) :
        /\ Min(a[1], b[1]) <= c[1] /\ c[1] <= Max(a[1], b[1])
        /\ Min(a[2], b[2]) <= c[2] /\ c[2] <= Max(a[2], b[2])}

\* path is a route from source to target: it excludes source, ends at
\* target, and each cell is traversable and an 8-neighbour of the one before
IsRoute(path, source, target) ==
    /\ path # <<>> /\ path[Len(path)] = target
    /\ source \notin Range(path)
    /\ \A k \in 1 .. Len(path) :
          /\ Traversable(path[k])
          /\ Adjacent(IF k = 1 THEN source ELSE path[k - 1], path[k])

\* C12: whenever some route leads from a cleaner's cell to a target cell,
\* dijkstra_path returns a route, no route is shorter, and with no obstacle
\* in the rectangle between the two cells its length is their Chebyshev
\* distance.
C12_ShortestRoute ==
    Built => \A i \in DOMAIN cleaners : \A target \in GridCells(params) :
        LET source == cleaners[i].cell
            path == dijkstra_path(World, i, target)
            d == Distance(source, target)
        IN  d > 0 =>
              /\ IsRoute(path, source, target)
              /\ Len(path) = d
              /\ (\A c \in Between(source, target) : Traversable(c))
                    => Len(path) = Chebyshev(source, target)

\* a route that has to go round an obstacle: longer than the Chebyshev
\* distance, and found
C12_Witness ==
    /\ Built /\ current_step > 0
    /\ \E i \in DOMAIN cleaners : \E target \in GridCells(params) :
          LET source == cleaners[i].cell
              path == dijkstra_path(World, i, target)
          IN  /\ IsRoute(path, source, target)
              /\ Len(path) > Chebyshev(source, target)
              /\ Len(path) = Distance(source, target)

\* C13: the search ends within its bound with the queue empty or the target
\* found, marks no cell visited twice, and returns the empty path when the
\* target is the cleaner's own cell and when no route leads to the target.
C13_SearchEndsEmptyWhenNoRoute ==
    Built => \A i \in DOMAIN cleaners : \A target \in GridCells(params) :
        LET source == cleaners[i].cell
            final == dijkstra_search(World, i, target)
            d == Distance(source, target)
        IN  /\ final.found \/ final.pq = {}
            /\ \A j, k \in 1 .. Len(final.expanded) :
                  final.expanded[j] = final.expanded[k] => j = k
            /\ d <= 0 => dijkstra_path(World, i, target) = <<>>

\* a cleaner away from its start cell, a free cell no route leads to, an
\* obstacle cell, and the cleaner's own cell: the empty path for each
C13_Witness ==
    /\ Built /\ current_step > 0
    /\ \E i \in DOMAIN cleaners :
          LET source == cleaners[i].cell
          IN  /\ dijkstra_path(World, i, source) = <<>>
              /\ \E t \in GridCells(params) :
                     /\ Traversable(t) /\ Distance(source, t) < 0
                     /\ dijkstra_path(World, i, t) = <<>>
              /\ \E t \in obstacles \ border(params) :
                     dijkstra_path(World, i, t) = <<>>

\* C14: get_statistics() can be called in every state of a constructed
\* model, and a call changes no attribute of the model or of its occupants:
\* the state the next step() starts from is the one before the call.
C14_StatisticsReadOnly ==
    /\ [](Built => ENABLED GetStatistics)
    /\ [][(statistics' # statistics \/ current_step' = current_step)
             => attributes' = attributes]_vars

\* statistics read in the middle of a run, after which the run went on
C14_Witness ==
    /\ statistics # <<>>
    /\ statistics[1].steps > 0 /\ statistics[1].total_cleaned > 0
    /\ statistics[1].dirty_cells_remaining > 0
    /\ current_step > statistics[1].steps

\* the statistics of a world: dirty_cells, the totals, and each cleaner's
\* battery, moves and cleaned_cells
statistics_of(w) ==
    [dirty_cells |-> w.dirty_cells,
     total_moves |-> SumOver([i \in DOMAIN w.cleaners |-> w.cleaners[i].moves],
                             DOMAIN w.cleaners),
     total_cleaned |-> SumOver([i \in DOMAIN w.cleaners |-> w.cleaners[i].cleaned_cells],
                               DOMAIN w.cleaners),
     agent_statistics |-> [i \in DOMAIN w.cleaners |->
         [battery |-> w.cleaners[i].battery, moves |-> w.cleaners[i].moves,
          cleaned_cells |-> w.cleaners[i].cleaned_cells]]]

\* C15: two models constructed with the same seed and arguments and stepped
\* together have the same statistics after every tick.
C15_SameSeedSameStatistics ==
    twin # <<>> => statistics_of(World) = statistics_of(TwinWorld)

\* C21: when a cleaner with battery <= 20 on a cell without a station is sent
\* towards a cell to which no route leads, move_towards_station leaves its
\* cell, battery and moves as they were, changes nothing on the grid, and
\* keeps no route, so that the next activation searches again; when that
\* cell is its station, this is all its activation does.
C21_NoRouteNoMove ==
    \A act \in Activations :
        LET w == act[1]
            i == act[2]
            a == w.cleaners[i]
            flagged == [w EXCEPT !.cleaners[i].returning_to_charge = TRUE]
        IN  (a.battery <= LowBattery /\ ~HasStation(a.cell)) =>
                \A t \in GridCells(params) :
                    Distance(a.cell, t) < 0 =>
                        LET w2 == move_towards_station(flagged, i, t)
                            b == w2.cleaners[i]
                        IN  /\ Same(a, b, {"cell", "battery", "moves", "cleaned_cells",
                                           "visited_cells"})
                            /\ b.path_to_station = <<>>
                            /\ w2.is_dirty = w.is_dirty /\ w2.dirty_cells = w.dirty_cells
                            /\ t = find_charging_station(w, i) => agent_step(w, i) = {w2}

\* a cleaner with a low battery beside the obstacle of the corridor, the
\* cells behind the obstacle out of its reach
C21_Witness ==
    /\ running
    /\ \E act \in Activations :
          LET a == act[1].cleaners[act[2]]
          IN  /\ a.battery <= LowBattery /\ a.battery > 0 /\ ~HasStation(a.cell)
              /\ \E t \in GridCells(params) :
                    /\ Traversable(t) /\ Distance(a.cell, t) < 0
                    /\ dijkstra_path(act[1], act[2], t) = <<>>
              /\ \E o \in Range(neighborhood(params, a.cell)) :
                    o \in obstacles \ border(params)

\* the ObstacleAgents __init__ creates: one per border cell, and the sampled
\* ones when the sample is drawn
obstacle_agents ==
    Cardinality(border(params))
        + (IF num_obstacles(params) > 0
              /\ num_obstacles(params)
                     <= Cardinality(InteriorCells(params) \ Range(stations))
           THEN num_obstacles(params) ELSE 0)

\* C22: in every state of a constructed model a cell with an obstacle holds
\* nothing else: no station, no DirtyCellAgent, no second obstacle (there are
\* as many obstacle cells as obstacles were created) and no cleaner, however
\* the cleaners have moved.
C22_ObstaclesAlone ==
    Built =>
        /\ obstacles \cap Range(stations) = {}
        /\ obstacles \cap DOMAIN is_dirty = {}
        /\ Cardinality(obstacles) = obstacle_agents
        /\ \A i \in DOMAIN cleaners : cleaners[i].cell \notin obstacles

\* a cleaner that has moved stands beside a sampled obstacle
C22_Witness ==
    /\ Built /\ running
    /\ \E i \in DOMAIN cleaners :
          /\ cleaners[i].moves > 0
          /\ \E o \in Range(neighborhood(params, cleaners[i].cell)) :
                o \in obstacles \ border(params)

\* the step that is taken cleans cell c through exactly one of the cleaners
\* that stood on it: c is clean afterwards, one of them has one more
\* cleaned cell and the others as many as before, and dirty_cells has
\* fallen by one for each cell cleaned in the step
OneCleaned(c) ==
    LET there == CleanersAt(World, c)
    IN  /\ ~is_dirty'[c]
        /\ Cardinality({i \in there :
                cleaners'[i].cleaned_cells = cleaners[i].cleaned_cells + 1}) = 1
        /\ \A i \in there :
                cleaners'[i].cleaned_cells - cleaners[i].cleaned_cells \in {0, 1}
        /\ dirty_cells - dirty_cells' =
                Cardinality({d \in DOMAIN is_dirty : is_dirty[d] /\ ~is_dirty'[d]})

\* C23 as stated: when two or more cleaners stand on the same dirty cell as a
\* tick begins, the tick has exactly one of them clean it, dirty_cells falls
\* by exactly one for that cell, and only that cleaner's cleaned_cells rises.
C23_SharedCellCleanedOnce ==
    [][\A c \in DOMAIN is_dirty :
          (/\ current_step' = current_step + 1
           /\ is_dirty[c]
           /\ Cardinality(CleanersAt(World, c)) >= 2) => OneCleaned(c)]_vars

\* C23, amended: the same, when at least one of the cleaners on the cell has
\* a battery above 20 as the tick begins.
C23_SharedCellCleanedOnceWithBattery ==
    [][\A c \in DOMAIN is_dirty :
          (/\ current_step' = current_step + 1
           /\ is_dirty[c]
           /\ Cardinality(CleanersAt(World, c)) >= 2
           /\ \E i \in CleanersAt(World, c) : cleaners[i].battery > LowBattery)
              => OneCleaned(c)]_vars

\* a tick has ended that began with two cleaners, their batteries above 20,
\* on one dirty cell: one of them has cleaned it and is still there, the
\* other has moved on
C23_Witness ==
    /\ Built /\ current_step >= 2
    /\ \E i, j \in DOMAIN cleaners :
          /\ i # j
          /\ cleaners[i].cleaned_cells = 1 /\ cleaners[j].cleaned_cells = 0
          /\ cleaners[i].moves = 1 /\ cleaners[j].moves = 2
          /\ cleaners[i].battery = FullBattery - 2
          /\ cleaners[i].cell \in cleaners[j].visited_cells
          /\ cleaners[i].cell \in DOMAIN is_dirty /\ ~is_dirty[cleaners[i].cell]

\* C24: in every state of a constructed model, whatever dirty_percentage it
\* was given, dirty_cells is the number of DirtyCellAgents whose is_dirty is
\* true, so that dirty_cells = 0 exactly when no cell is dirty.
C24_CounterIsDirtyCount ==
    Built =>
        /\ dirty_cells = Cardinality(DirtyNow)
        /\ dirty_cells = 0 <=> DirtyNow = {}

\* C25: in every state of a constructed model the cleaned_cells of the
\* cleaners add up to initial_dirty_cells - dirty_cells, so that
\* clean_percentage is total_cleaned / initial_dirty_cells * 100 (and 100
\* with nothing cleaned when nothing was to be cleaned).
C25_CleanedAddsUp ==
    Built =>
        /\ total_cleaned = initial_dirty_cells - dirty_cells
        /\ get_statistics.clean_percentage =
               (IF initial_dirty_cells > 0
                THEN <<get_statistics.total_cleaned * 100, initial_dirty_cells>>
                ELSE <<100, 1>>)

\* two cleaners have each cleaned a cell and dirt is left
C25_Witness ==
    /\ Built /\ running /\ dirty_cells > 0
    /\ \E i, j \in DOMAIN cleaners :
          i # j /\ cleaners[i].cleaned_cells > 0 /\ cleaners[j].cleaned_cells > 0

\* C26 as stated: from a cell without a station, with battery <= 20 and a
\* route of d <= battery cells to its target station, every activation takes
\* the cleaner one cell nearer until it stands on that station, which it
\* does after d activations.  An activation belongs to the way home when the
\* cleaner is off-station with a low battery, or when the step before left
\* it with a low battery and a rest of its route still to go.
C26_ReachesTargetStation ==
    [][current_step' = current_step + 1 =>
         \A i \in DOMAIN cleaners :
            LET a == cleaners[i]
                target == find_charging_station(World, i)
                d == Distance(a.cell, target)
            IN  (/\ \/ a.battery <= LowBattery /\ ~HasStation(a.cell)
                    \/ /\ a.battery < LowBattery /\ a.returning_to_charge
                       /\ a.path_to_station # <<>>
                 /\ 0 < d /\ d <= a.battery)
                    => /\ Distance(cleaners'[i].cell, target) = d - 1
                       /\ cleaners'[i].battery = a.battery - 1]_vars

\* C26, amended: every activation off a station with battery <= 20 and a
\* route of d <= battery cells to the target station takes the cleaner one
\* cell nearer to it at the cost of 1 battery, so that within d activations
\* it stands on a station, the target or one the route crosses before it;
\* and a cleaner on a station with battery < 100 stays there and charges.
C26_HeadsHomeThenCharges ==
    [][current_step' = current_step + 1 =>
         \A i \in DOMAIN cleaners :
            LET a == cleaners[i]
                b == cleaners'[i]
                target == find_charging_station(World, i)
                d == Distance(a.cell, target)
            IN  /\ (/\ a.battery <= LowBattery /\ ~HasStation(a.cell)
                     /\ 0 < d /\ d <= a.battery)
                       => /\ Adjacent(a.cell, b.cell)
                          /\ Distance(b.cell, target) = d - 1
                          /\ b.battery = a.battery - 1
                          /\ d > 1 /\ ~HasStation(b.cell) => b.battery >= d - 1
                /\ (HasStation(a.cell) /\ a.battery < FullBattery)
                       => /\ b.cell = a.cell
                          /\ b.battery = Min(FullBattery, a.battery + ChargeIncrement)]_vars

\* a cleaner has come back to its own station along its route, its battery
\* low, and the run is still on
C26_Witness ==
    /\ Built /\ running
    /\ \E i \in DOMAIN cleaners :
          /\ cleaners[i].cell = cleaners[i].initial_station
          /\ cleaners[i].cell = find_charging_station(World, i)
          /\ cleaners[i].battery < LowBattery /\ cleaners[i].battery > 0
          /\ cleaners[i].returning_to_charge
          /\ cleaners[i].path_to_station = <<>>
          /\ cleaners[i].moves > 80

====
